---- MODULE Spec2Model ----
(***************************************************************************)
(* Import/Export AI Assistant: the chat persistence servers (the loose     *)
(* server, the authenticated server, the router with the strict schema),   *)
(* the protect middleware, and the client conversation controller.         *)
(*                                                                         *)
(* Strings that the code inspects (conversation ids) are sequences of      *)
(* one-character strings, so that falsiness, ordering and the array-index  *)
(* test of JavaScript property keys are computed, not assumed.             *)
(* The clock counts days: Date.now() readings are clock values, two        *)
(* readings in the same instant are equal, and a token lives ExpiresIn.    *)
(***************************************************************************)
EXTENDS Integers, Sequences, FiniteSets, TLC

VARIABLES
    server,     \* which server variant is running: "loose", "auth", "router"
    users,      \* the User collection: set of [id, username, password]
    issued,     \* tokens handed out by register/login (held by the clients)
    chats,      \* the Chat collection in natural (insertion) order
    nextId,     \* the next _id the store assigns
    clock,      \* the server's clock (Date.now)
    req,        \* what the middleware did with the last request
    resp,       \* the HTTP response of the last request served
    registering,    \* register requests between their User.findOne and User.create
    \* the React state of the Chatbot component
    messages,           \* Message[]: [id, text, sender, edited]
    activeConversationId,   \* the conversationId state: string | null
    conversations,      \* ConversationMeta[]
    isLoading,          \* boolean
    editingMessageId,   \* number | null
    dateNow,            \* the browser's clock (Date.now)
    tasks,              \* the async handlers that are suspended at an await
    failed              \* history: the fetches of the client that were not answered ok

serverVars == <<server, users, issued, chats, nextId, clock>>
clientVars == <<messages, activeConversationId, conversations, isLoading, editingMessageId,
               dateNow, tasks, failed>>
vars == <<server, users, issued, chats, nextId, clock, req, resp, registering,
          messages, activeConversationId, conversations, isLoading, editingMessageId,
          dateNow, tasks, failed>>

-----------------------------------------------------------------------------
(* Bounds of the model *)

MaxChats == 2       \* rows ever inserted, in the server specifications
MaxTime == 2        \* last instant of the clock in the server specification
MaxTokens == 2      \* tokens handed out
MaxNow == 22        \* last instant of the browser's clock
MaxTasks == 1       \* handlers suspended at an await at the same time

(* Program constants *)

ExpiresIn == 30     \* jwt.sign(..., { expiresIn: '30d' })
NullId == 0         \* useState<number | null>(null): no message is being edited
HistoryLength == 6  \* messages.slice(-6)

-----------------------------------------------------------------------------
(* Values *)

Undefined == <<"undefined">>        \* a missing header, query or body field
NullUser == "null"                  \* findById found nothing
NoUser == "anonymous"               \* rows of the loose schema carry no user

UserIds == {"u1", "u2"}
NullConv == <<"null">>              \* conversationId state when nothing is selected

EmptyString == << >>
DateNowId == <<"1","7","6","2","2","4","1","0","0","0","0","0","0">>
ConvIds == {EmptyString, <<"2">>, <<"1","0">>, DateNowId}

JwtSecret == "JWT_SECRET"
NotAJwt == [garbage |-> TRUE]       \* a token that is no JWT at all
NoToken == [missing |-> TRUE]       \* authorization.split(' ')[1] is undefined
NoHeader == [absent |-> TRUE]       \* req.headers.authorization is undefined

-----------------------------------------------------------------------------
(* JavaScript and MongoDB primitives *)

\* !v for a string or undefined
Falsy(v) == v = Undefined \/ v = NullConv \/ v = EmptyString

CharCode(c) ==
    CASE c = "0" -> 48 [] c = "1" -> 49 [] c = "2" -> 50 [] c = "3" -> 51
      [] c = "4" -> 52 [] c = "5" -> 53 [] c = "6" -> 54 [] c = "7" -> 55
      [] c = "8" -> 56 [] c = "9" -> 57 [] OTHER -> 99

IsDigit(c) == CharCode(c) >= 48 /\ CharCode(c) <= 57

\* binary string comparison, as $sort compares strings
RECURSIVE StrLess(_, _)
StrLess(a, b) ==
    IF b = << >> THEN FALSE
    ELSE IF a = << >> THEN TRUE
    ELSE IF CharCode(Head(a)) # CharCode(Head(b))
         THEN CharCode(Head(a)) < CharCode(Head(b))
         ELSE StrLess(Tail(a), Tail(b))

\* canonical decimal strings compared as numbers: by length, then digit by digit
NumLess(a, b) ==
    Len(a) < Len(b) \/ (Len(a) = Len(b) /\ StrLess(a, b))

MaxArrayIndex == <<"4","2","9","4","9","6","7","2","9","4">>

\* an array index: the canonical string of an integer in 0 .. 2^32 - 2
IsArrayIndex(k) ==
    /\ k # << >>
    /\ \A i \in 1..Len(k) : IsDigit(k[i])
    /\ (Len(k) > 1 => k[1] # "0")
    /\ ~ NumLess(MaxArrayIndex, k)

\* all orderings of the finite set S
Perms(S) ==
    {p \in [1..Cardinality(S) -> S] : \A i, j \in 1..Cardinality(S) : i # j => p[i] # p[j]}

RemoveAt(s, i) == SubSeq(s, 1, i - 1) \o SubSeq(s, i + 1, Len(s))

Range(s) == {s[i] : i \in 1..Len(s)}

\* Chat.find({ conversationId }) of the loose server
FindConversation(rows, c) ==
    {r \in Range(rows) : r.conversationId = c}

\* a find that forgets the owner in its filter
FindAnyOwner(rows, u, c) ==
    {r \in Range(rows) : r.conversationId = c}

\* Chat.find({ conversationId, user }) of the authenticated server and the router
Find(rows, u, c) ==
    {r \in Range(rows) : r.user = u /\ r.conversationId = c}

FindByUser(rows, u) == {r \in Range(rows) : r.user = u}

\* a find without its sort: any order
Unsorted(S) == Perms(S)

\* .sort({ timestamp: 1 }): every order the store may return; ties are not ordered
SortAsc(S) ==
    {p \in Perms(S) : \A i, j \in 1..Cardinality(S) : i < j => p[i].timestamp <= p[j].timestamp}

\* .sort({ timestamp: -1 })
SortDesc(S) ==
    {p \in Perms(S) : \A i, j \in 1..Cardinality(S) : i < j => p[i].timestamp >= p[j].timestamp}

-----------------------------------------------------------------------------
(* Conversation listing *)

\* { $sort: { conversationId: 1, timestamp: 1 } }
SortByConvTs(S) ==
    {p \in Perms(S) : \A i, j \in 1..Cardinality(S) : i < j =>
        ~ \/ StrLess(p[j].conversationId, p[i].conversationId)
          \/ /\ p[j].conversationId = p[i].conversationId
             /\ p[j].timestamp < p[i].timestamp}

\* the position of the last document of group c in the sorted input
LastOf(p, c) ==
    CHOOSE i \in 1..Len(p) :
        /\ p[i].conversationId = c
        /\ \A j \in 1..Len(p) : p[j].conversationId = c => j <= i

\* a $group that takes $first instead of $last
GroupFirst(p) ==
    {[conversationId |-> c,
      lastMessage |-> p[CHOOSE i \in 1..Len(p) :
                            /\ p[i].conversationId = c
                            /\ \A j \in 1..Len(p) : p[j].conversationId = c => i <= j].text,
      updatedAt |-> p[CHOOSE i \in 1..Len(p) :
                            /\ p[i].conversationId = c
                            /\ \A j \in 1..Len(p) : p[j].conversationId = c => i <= j].timestamp] :
        c \in {p[i].conversationId : i \in 1..Len(p)}}

\* { $group: { _id: "$conversationId", lastMessage: { $last: "$text" },
\*             updatedAt: { $last: "$timestamp" } } }, then the map to the
\* friendly format
GroupLast(p) ==
    {[conversationId |-> c,
      lastMessage |-> p[LastOf(p, c)].text,
      updatedAt |-> p[LastOf(p, c)].timestamp] : c \in {p[i].conversationId : i \in 1..Len(p)}}

\* { $sort: { updatedAt: -1 } }
SortByUpdatedDesc(G) ==
    {p \in Perms(G) : \A i, j \in 1..Cardinality(G) : i < j => p[i].updatedAt >= p[j].updatedAt}

\* Chat.aggregate([...]) of the loose and the authenticated server: every
\* result the pipeline may produce for the matched rows S
Aggregate(S) ==
    UNION {SortByUpdatedDesc(GroupLast(p)) : p \in SortByConvTs(S)}

\* the keys of the reduce accumulator in insertion order: first occurrences
RECURSIVE FirstKeys(_, _)
FirstKeys(p, seen) ==
    IF p = << >> THEN << >>
    ELSE IF Head(p).conversationId \in seen THEN FirstKeys(Tail(p), seen)
    ELSE <<Head(p).conversationId>> \o FirstKeys(Tail(p), seen \cup {Head(p).conversationId})

\* the entry the reduce stores under key c: built from the first row with it
FirstOf(p, c) ==
    LET i == CHOOSE i \in 1..Len(p) :
                /\ p[i].conversationId = c
                /\ \A j \in 1..Len(p) : p[j].conversationId = c => i <= j
    IN [conversationId |-> c, lastMessage |-> p[i].text, updatedAt |-> p[i].timestamp]

\* own property keys of an object: array indices in ascending numeric order,
\* then the other string keys in insertion order
RECURSIVE InsertIndex(_, _)
InsertIndex(sorted, k) ==
    IF sorted = << >> THEN <<k>>
    ELSE IF NumLess(k, Head(sorted)) THEN <<k>> \o sorted
    ELSE <<Head(sorted)>> \o InsertIndex(Tail(sorted), k)

RECURSIVE IndexKeys(_)
IndexKeys(keys) ==
    IF keys = << >> THEN << >>
    ELSE IF IsArrayIndex(Head(keys)) THEN InsertIndex(IndexKeys(Tail(keys)), Head(keys))
    ELSE IndexKeys(Tail(keys))

StringKeys(keys) == SelectSeq(keys, LAMBDA k : ~ IsArrayIndex(k))

OwnKeys(keys) == IndexKeys(keys) \o StringKeys(keys)

\* Object.values(chats.reduce(...)) of the router, for one find result p
ObjectValues(p) ==
    LET keys == OwnKeys(FirstKeys(p, {}))
    IN [i \in 1..Len(keys) |-> FirstOf(p, keys[i])]

\* every result the router's grouping may produce for the rows S
GroupInProcess(S) == {ObjectValues(p) : p \in SortDesc(S)}

-----------------------------------------------------------------------------
(* Tokens and the protect middleware *)

\* jwt.sign({ id }, process.env.JWT_SECRET, { expiresIn: '30d' })
generateToken(id, now) == [id |-> id, exp |-> now + ExpiresIn, sig |-> JwtSecret]

\* a verify that ignores the expiry of the token
JwtVerifiesIgnoringExpiry(token, now) ==
    /\ "sig" \in DOMAIN token
    /\ token.sig = "JWT_SECRET"

\* jwt.verify(token, process.env.JWT_SECRET) returns the payload; it throws on
\* a missing or malformed token, a wrong signature, or an expired token
JwtVerifies(token, now) ==
    /\ "sig" \in DOMAIN token
    /\ token.sig = JwtSecret
    /\ now < token.exp

\* User.findById(id).select('-password'): the user's _id, or null
findById(userdb, id) ==
    IF \E u \in userdb : u.id = id THEN id ELSE NullUser

\* the middleware with the return of its catch block left out
protectFallsThrough(hdr, now, userdb) ==
    LET bearer == hdr # NoHeader /\ hdr.scheme = "Bearer"
        token == IF bearer THEN hdr.token ELSE NoToken
        verified == bearer /\ JwtVerifies(token, now)
        caught == bearer /\ ~ verified
        noToken == token = NoToken
    IN [sent401 |-> (IF caught THEN 1 ELSE 0) + (IF noToken THEN 1 ELSE 0),
        next |-> IF verified THEN 1 ELSE 0,
        user |-> IF verified THEN findById(userdb, token.id) ELSE NullUser,
        hdr |-> hdr,
        at |-> now,
        mw |-> "protect"]

\* The middleware, statement by statement: how many 401 responses it sends,
\* how many times it calls next(), and the user it attaches to the request.
protect(hdr, now, userdb) ==
    LET bearer == hdr # NoHeader /\ hdr.scheme = "Bearer"
        token == IF bearer THEN hdr.token ELSE NoToken
        verified == bearer /\ JwtVerifies(token, now)
        \* the try block: req.user = ...; next()  /  catch: return 401
        caught == bearer /\ ~ verified
        \* if (!token) return 401, reached unless the catch returned
        noToken == ~ caught /\ token = NoToken
    IN [sent401 |-> (IF caught THEN 1 ELSE 0) + (IF noToken THEN 1 ELSE 0),
        next |-> IF verified THEN 1 ELSE 0,
        user |-> IF verified THEN findById(userdb, token.id) ELSE NullUser,
        hdr |-> hdr,
        at |-> now,
        mw |-> "protect"]

\* the loose server has no middleware: the handler is called directly
Unprotected(now) ==
    [sent401 |-> 0, next |-> 1, user |-> NoUser, hdr |-> NoHeader, at |-> now,
     mw |-> "none"]

\* a request that matches no route: neither middleware nor handler runs
NotRouted(now) ==
    [sent401 |-> 0, next |-> 0, user |-> NoUser, hdr |-> NoHeader, at |-> now,
     mw |-> "unrouted"]

Response(route, status, u, c, body) ==
    [route |-> route, status |-> status, user |-> u, conv |-> c, body |-> body]

\* the 401 of the middleware: the handler does not run, nothing else changes
Unauthorized(route, p) ==
    /\ req' = p
    /\ resp' = Response(route, 401, NoUser, Undefined, << >>)
    /\ UNCHANGED <<server, users, issued, chats, nextId, clock>>

-----------------------------------------------------------------------------
(* Chat rows *)

\* new Chat(doc): the row of the collection; timestamp defaults to Date.now
NewChat(id, u, body, now) ==
    [id |-> id,
     user |-> u,
     conversationId |-> body.conversationId,
     sender |-> body.sender,
     text |-> body.text,
     timestamp |-> IF "timestamp" \in DOMAIN body THEN body.timestamp ELSE now]

\* a deleteOne({ conversationId }): only the first match goes
DeleteOneRow(rows, c) ==
    LET hits == {i \in 1..Len(rows) : rows[i].conversationId = c}
    IN IF hits = {} THEN rows
       ELSE LET k == CHOOSE i \in hits : \A j \in hits : i <= j
            IN SubSeq(rows, 1, k - 1) \o SubSeq(rows, k + 1, Len(rows))

\* Chat.deleteMany({ conversationId }) of the loose server: the rows that remain
DeleteConversationRows(rows, c) ==
    SelectSeq(rows, LAMBDA r : r.conversationId # c)

\* a deleteOne in place of deleteMany: only the first match goes
DeleteFirstMatch(rows, u, c) ==
    LET hits == {i \in 1..Len(rows) : rows[i].user = u /\ rows[i].conversationId = c}
    IN IF hits = {} THEN rows
       ELSE LET k == CHOOSE i \in hits : \A j \in hits : i <= j
            IN SubSeq(rows, 1, k - 1) \o SubSeq(rows, k + 1, Len(rows))

\* a deleteMany that filters on the conversationId alone
DeleteManyOfAnyOwner(rows, u, c) ==
    SelectSeq(rows, LAMBDA r : r.conversationId # c)

\* Chat.deleteMany({ conversationId, user }): the rows that remain
DeleteMany(rows, u, c) ==
    SelectSeq(rows, LAMBDA r : ~ (r.user = u /\ r.conversationId = c))

\* the strict schema of the router: conversationId, sender and text are
\* required (an empty string does not satisfy required), sender is an enum
ValidStrict(body) ==
    /\ "conversationId" \in DOMAIN body /\ body.conversationId # EmptyString
    /\ "sender" \in DOMAIN body /\ body.sender \in {"user", "ai"}
    /\ "text" \in DOMAIN body /\ body.text # ""

\* what a handler reads as req.query.conversationId or req.body.conversationId
ConversationIdOf(r) ==
    IF "conversationId" \in DOMAIN r THEN r.conversationId ELSE Undefined

-----------------------------------------------------------------------------
(* Requests *)

Turns ==
    {[sender |-> "user", text |-> "What is an Incoterm?"],
     [sender |-> "ai", text |-> "FOB means Free On Board."]}

\* request bodies of POST /api/chats; the client sends timestamp: new Date()
Bodies ==
    {[conversationId |-> c, sender |-> m.sender, text |-> m.text] :
        c \in ConvIds, m \in Turns}
    \cup
    {[conversationId |-> c, sender |-> m.sender, text |-> m.text, timestamp |-> t] :
        c \in ConvIds, m \in Turns, t \in 1..MaxTime}

\* bodies that lack a required field
PartialBodies ==
    {[sender |-> m.sender, text |-> m.text] : m \in Turns}

EmptyQuery == [lang |-> "en"]       \* a query string without conversationId
Queries == {[conversationId |-> c] : c \in ConvIds} \cup {EmptyQuery}

\* a route parameter is a non-empty path segment
RouteParams == ConvIds \ {EmptyString}

\* requests no server variant has a route for
UnroutedRequests == {"PUT /api/chats", "DELETE /api/chats/:id", "DELETE /api/conversations/"}

\* the headers of the clients that hold a token
ClientHeaders ==
    {[scheme |-> "Bearer", token |-> t] : t \in issued}

-----------------------------------------------------------------------------
(* The loose server *)

\* app.post("/api/chats")
PostChatsLoose(B) ==
    /\ server = "loose"
    /\ \E body \in B :
        LET chat == NewChat(nextId, NoUser, body, clock) IN
        /\ chats' = Append(chats, chat)
        /\ nextId' = nextId + 1
        /\ req' = Unprotected(clock)
        /\ resp' = Response("POST /api/chats", 200, NoUser, chat.conversationId, <<chat>>)
    /\ UNCHANGED <<server, users, issued, clock>>

\* app.get("/api/chats")
GetChatsLoose(Q) ==
    /\ server = "loose"
    /\ \E q \in Q :
        LET conversationId == ConversationIdOf(q) IN
        /\ req' = Unprotected(clock)
        /\ IF Falsy(conversationId)
           THEN resp' = Response("GET /api/chats", 400, NoUser, conversationId, << >>)
           ELSE \E list \in SortAsc(FindConversation(chats, conversationId)) :
                    resp' = Response("GET /api/chats", 200, NoUser, conversationId, list)
    /\ UNCHANGED <<server, users, issued, chats, nextId, clock>>

\* app.get("/api/conversations")
GetConversationsLoose ==
    /\ server = "loose"
    /\ req' = Unprotected(clock)
    /\ \E result \in Aggregate(Range(chats)) :
        resp' = Response("GET /api/conversations", 200, NoUser, Undefined, result)
    /\ UNCHANGED <<server, users, issued, chats, nextId, clock>>

\* app.delete("/api/conversations/:conversationId")
DeleteConversationLoose(P) ==
    /\ server = "loose"
    /\ req' = Unprotected(clock)
    /\ \E conversationId \in P :
        /\ chats' = DeleteConversationRows(chats, conversationId)
        /\ resp' = Response("DELETE /api/conversations/:conversationId", 200,
                            NoUser, conversationId, << >>)
    /\ UNCHANGED <<server, users, issued, nextId, clock>>

-----------------------------------------------------------------------------
(* The authenticated server *)

\* a spread written the other way round, { user: req.user._id, ...req.body }:
\* a user field of the body wins
ChatDataBodyLast(body, u) ==
    [k \in DOMAIN body \cup {"user"} |->
        IF k = "user" /\ "user" \notin DOMAIN body THEN u ELSE body[k]]

\* chatData = { ...req.body, user: req.user._id }: the fields of the body,
\* and user set after them
ChatData(body, u) ==
    [k \in DOMAIN body \cup {"user"} |-> IF k = "user" THEN u ELSE body[k]]

\* app.post("/api/chats", protect, ...)
PostChats(H, B) ==
    /\ server = "auth"
    /\ \E hdr \in H, body \in B :
        LET p == protect(hdr, clock, users) IN
        IF p.next = 0 THEN Unauthorized("POST /api/chats", p)
        ELSE /\ req' = p
             /\ IF p.user = NullUser
                THEN /\ resp' = Response("POST /api/chats", 500, p.user, Undefined, << >>)
                     /\ UNCHANGED <<chats, nextId>>
                ELSE LET chatData == ChatData(body, p.user)
                         chat == NewChat(nextId, chatData.user, chatData, clock) IN
                     /\ chats' = Append(chats, chat)
                     /\ nextId' = nextId + 1
                     /\ resp' = Response("POST /api/chats", 200, p.user,
                                         chat.conversationId, <<chat>>)
             /\ UNCHANGED <<server, users, issued, clock>>

\* app.get("/api/chats", protect, ...)
GetChats(H, Q) ==
    /\ server = "auth"
    /\ \E hdr \in H, q \in Q :
        LET p == protect(hdr, clock, users)
            conversationId == ConversationIdOf(q) IN
        IF p.next = 0 THEN Unauthorized("GET /api/chats", p)
        ELSE /\ req' = p
             /\ IF Falsy(conversationId)
                THEN resp' = Response("GET /api/chats", 400, p.user, conversationId, << >>)
                ELSE IF p.user = NullUser
                THEN resp' = Response("GET /api/chats", 500, p.user, conversationId, << >>)
                ELSE \E list \in SortAsc(Find(chats, p.user, conversationId)) :
                        resp' = Response("GET /api/chats", 200, p.user, conversationId, list)
             /\ UNCHANGED <<server, users, issued, chats, nextId, clock>>

\* app.get("/api/conversations", protect, ...)
GetConversations(H) ==
    /\ server = "auth"
    /\ \E hdr \in H :
        LET p == protect(hdr, clock, users) IN
        IF p.next = 0 THEN Unauthorized("GET /api/conversations", p)
        ELSE /\ req' = p
             /\ IF p.user = NullUser
                THEN resp' = Response("GET /api/conversations", 500, p.user, Undefined, << >>)
                ELSE \E result \in Aggregate(FindByUser(chats, p.user)) :
                        resp' = Response("GET /api/conversations", 200, p.user, Undefined, result)
             /\ UNCHANGED <<server, users, issued, chats, nextId, clock>>

\* app.delete("/api/conversations/:conversationId", protect, ...)
DeleteConversation(H, P) ==
    /\ server = "auth"
    /\ \E hdr \in H, conversationId \in P :
        LET p == protect(hdr, clock, users) IN
        IF p.next = 0
        THEN Unauthorized("DELETE /api/conversations/:conversationId", p)
        ELSE /\ req' = p
             /\ IF p.user = NullUser
                THEN /\ resp' = Response("DELETE /api/conversations/:conversationId", 500,
                                         p.user, conversationId, << >>)
                     /\ UNCHANGED chats
                ELSE /\ chats' = DeleteMany(chats, p.user, conversationId)
                     /\ resp' = Response("DELETE /api/conversations/:conversationId", 200,
                                         p.user, conversationId, << >>)
             /\ UNCHANGED <<server, users, issued, nextId, clock>>

-----------------------------------------------------------------------------
(* The router with the strict schema *)

\* router.post('/chats', protect, ...)
RouterPostChats(H, B) ==
    /\ server = "router"
    /\ \E hdr \in H, body \in B :
        LET p == protect(hdr, clock, users) IN
        IF p.next = 0 THEN Unauthorized("POST /api/chats", p)
        ELSE /\ req' = p
             /\ IF p.user = NullUser \/ ~ ValidStrict(body)
                THEN /\ resp' = Response("POST /api/chats", 500, p.user,
                                         ConversationIdOf(body), << >>)
                     /\ UNCHANGED <<chats, nextId>>
                ELSE LET chat == NewChat(nextId, p.user,
                                         [conversationId |-> body.conversationId,
                                          sender |-> body.sender,
                                          text |-> body.text], clock) IN
                     /\ chats' = Append(chats, chat)
                     /\ nextId' = nextId + 1
                     /\ resp' = Response("POST /api/chats", 201, p.user,
                                         chat.conversationId, <<chat>>)
             /\ UNCHANGED <<server, users, issued, clock>>

\* router.get('/chats', protect, ...): the query value goes into the filter
\* as it is; no row has an undefined conversationId
RouterGetChats(H, Q) ==
    /\ server = "router"
    /\ \E hdr \in H, q \in Q :
        LET p == protect(hdr, clock, users)
            conversationId == ConversationIdOf(q) IN
        IF p.next = 0 THEN Unauthorized("GET /api/chats", p)
        ELSE /\ req' = p
             /\ IF p.user = NullUser
                THEN resp' = Response("GET /api/chats", 500, p.user, conversationId, << >>)
                ELSE \E list \in SortAsc(Find(chats, p.user, conversationId)) :
                        resp' = Response("GET /api/chats", 200, p.user, conversationId, list)
             /\ UNCHANGED <<server, users, issued, chats, nextId, clock>>

\* router.get('/conversations', protect, ...)
RouterGetConversations(H) ==
    /\ server = "router"
    /\ \E hdr \in H :
        LET p == protect(hdr, clock, users) IN
        IF p.next = 0 THEN Unauthorized("GET /api/conversations", p)
        ELSE /\ req' = p
             /\ IF p.user = NullUser
                THEN resp' = Response("GET /api/conversations", 500, p.user, Undefined, << >>)
                ELSE \E result \in GroupInProcess(FindByUser(chats, p.user)) :
                        resp' = Response("GET /api/conversations", 200, p.user, Undefined, result)
             /\ UNCHANGED <<server, users, issued, chats, nextId, clock>>

\* router.delete('/conversations/:convId', protect, ...)
RouterDeleteConversation(H, P) ==
    /\ server = "router"
    /\ \E hdr \in H, convId \in P :
        LET p == protect(hdr, clock, users) IN
        IF p.next = 0
        THEN Unauthorized("DELETE /api/conversations/:conversationId", p)
        ELSE /\ req' = p
             /\ IF p.user = NullUser
                THEN /\ resp' = Response("DELETE /api/conversations/:conversationId", 500,
                                         p.user, convId, << >>)
                     /\ UNCHANGED chats
                ELSE /\ chats' = DeleteMany(chats, p.user, convId)
                     /\ resp' = Response("DELETE /api/conversations/:conversationId", 200,
                                         p.user, convId, << >>)
             /\ UNCHANGED <<server, users, issued, nextId, clock>>

-----------------------------------------------------------------------------
(* Requests without a route, and the passing of time *)

\* a server with an update route: the text of a stored row is replaced
UpdateRoute(R) ==
    /\ chats # << >>
    /\ \E r \in R, k \in 1..Len(chats) :
        /\ chats' = [chats EXCEPT ![k].text = "What is CIF?"]
        /\ resp' = Response(r, 200, NoUser, Undefined, <<chats'[k]>>)
    /\ req' = NotRouted(clock)
    /\ UNCHANGED <<server, users, issued, nextId, clock>>

\* Express answers a request that matches no route with 404
NoRoute(R) ==
    /\ \E r \in R :
        resp' = Response(r, 404, NoUser, Undefined, << >>)
    /\ req' = NotRouted(clock)
    /\ UNCHANGED <<server, users, issued, chats, nextId, clock>>

Tick ==
    /\ clock < MaxTime
    /\ clock' = clock + 1
    /\ UNCHANGED <<server, users, issued, chats, nextId, req, resp>>
    /\ UNCHANGED <<clientVars, registering>>

-----------------------------------------------------------------------------
(* The servers with their users registered and no chat stored yet *)

Hash(password, salt) == [alg |-> "bcrypt", salt |-> salt, of |-> password]

RegisteredUsers ==
    {[id |-> "u1", username |-> "alice", password |-> Hash("pw-a", "s1")],
     [id |-> "u2", username |-> "bob", password |-> Hash("pw-b", "s2")]}

NoResponse == Response("none", 0, NoUser, Undefined, << >>)

\* the component before it is mounted
NoClient ==
    /\ messages = << >>
    /\ activeConversationId = NullConv
    /\ conversations = << >>
    /\ isLoading = FALSE
    /\ editingMessageId = NullId
    /\ dateNow = 1
    /\ tasks = << >>
    /\ failed = {}

Init ==
    /\ server \in {"loose", "auth", "router"}
    /\ users = IF server = "loose" THEN {} ELSE RegisteredUsers
    /\ issued = IF server = "loose" THEN {} ELSE {generateToken(u.id, 1) : u \in RegisteredUsers}
    /\ chats = << >>
    /\ nextId = 1
    /\ clock = 1
    /\ req = NotRouted(1)
    /\ resp = NoResponse
    /\ registering = << >>
    /\ NoClient

\* the requests the servers receive, from any client
Next ==
    \/ nextId <= MaxChats /\ PostChatsLoose(Bodies) /\ UNCHANGED <<clientVars, registering>>
    \/ GetChatsLoose(Queries) /\ UNCHANGED <<clientVars, registering>>
    \/ GetConversationsLoose /\ UNCHANGED <<clientVars, registering>>
    \/ DeleteConversationLoose(RouteParams) /\ UNCHANGED <<clientVars, registering>>
    \/ nextId <= MaxChats /\ PostChats(ClientHeaders, Bodies) /\ UNCHANGED <<clientVars, registering>>
    \/ GetChats(ClientHeaders, Queries) /\ UNCHANGED <<clientVars, registering>>
    \/ GetConversations(ClientHeaders) /\ UNCHANGED <<clientVars, registering>>
    \/ DeleteConversation(ClientHeaders, RouteParams) /\ UNCHANGED <<clientVars, registering>>
    \/ nextId <= MaxChats /\ RouterPostChats(ClientHeaders, Bodies \cup PartialBodies)
                          /\ UNCHANGED <<clientVars, registering>>
    \/ RouterGetChats(ClientHeaders, Queries) /\ UNCHANGED <<clientVars, registering>>
    \/ RouterGetConversations(ClientHeaders) /\ UNCHANGED <<clientVars, registering>>
    \/ RouterDeleteConversation(ClientHeaders, RouteParams) /\ UNCHANGED <<clientVars, registering>>
    \/ NoRoute(UnroutedRequests) /\ UNCHANGED <<clientVars, registering>>
    \/ Tick

Spec == Init /\ [][Next]_vars

-----------------------------------------------------------------------------
(* Registration, login and the life of a token *)

Usernames == {"alice", "bob"}
Passwords == {"pw-a", "pw-b"}
Salts == {"s1"}

\* a comparison that accepts every password
matchAnyPassword(user, enteredPassword) == TRUE

\* userSchema.methods.matchPassword: bcrypt.compare(entered, this.password)
matchPassword(user, enteredPassword) == user.password.of = enteredPassword

\* req.body of register and login: username and password, or the username alone
Credentials ==
    {[username |-> n, password |-> pw] : n \in Usernames, pw \in Passwords}
    \cup {[username |-> n] : n \in Usernames}

\* a request to a route without middleware, with its body
Posted(now, body) ==
    [sent401 |-> 0, next |-> 1, user |-> NoUser, hdr |-> NoHeader, at |-> now,
     mw |-> "none", body |-> body]

\* the _id the store gives the next user
NewUserId(userdb) == IF userdb = {} THEN "u1" ELSE "u2"

\* an answer that sends the stored user document as it is
AuthBodyWithPassword(user, token) ==
    <<[id |-> user.id, username |-> user.username, password |-> user.password,
       token |-> token]>>

\* the body of a successful register or login: _id, username and token
AuthBody(user, token) == <<[id |-> user.id, username |-> user.username, token |-> token]>>

\* an insert that no unique index guards
NoUniqueIndex(userdb, username) == TRUE

\* username: { unique: true }: the unique index of the User collection
\* admits an insert only when no stored user has the username
UniqueIndexAllows(userdb, username) == ~ \E u \in userdb : u.username = username

\* app.post("/api/auth/register") up to the answer of User.findOne: a taken
\* username is answered 400, otherwise the request goes on to User.create
RegisterLookup ==
    /\ server = "auth"
    /\ Cardinality(issued) + Len(registering) < MaxTokens
    /\ \E body \in Credentials :
        IF \E u \in users : u.username = body.username
        THEN /\ resp' = Response("POST /api/auth/register", 400, NoUser, Undefined, << >>)
             /\ req' = Posted(clock, body)
             /\ UNCHANGED registering
        ELSE /\ registering' = Append(registering, body)
             /\ UNCHANGED <<req, resp>>
    /\ UNCHANGED <<server, users, issued, chats, nextId, clock>>
    /\ UNCHANGED clientVars

\* app.post("/api/auth/register") from User.create on: validation, the
\* pre-save hash, the insert under the unique index, and the answer
Register ==
    /\ server = "auth"
    /\ \E i \in 1..Len(registering), salt \in Salts :
        LET body == registering[i] IN
        /\ IF "password" \notin DOMAIN body
           THEN \* User.create fails validation: password is required
                /\ resp' = Response("POST /api/auth/register", 500, NoUser, Undefined, << >>)
                /\ UNCHANGED <<users, issued>>
           ELSE IF ~ UniqueIndexAllows(users, body.username)
           THEN \* the insert fails with a duplicate key error: the catch answers 500
                /\ resp' = Response("POST /api/auth/register", 500, NoUser, Undefined, << >>)
                /\ UNCHANGED <<users, issued>>
           ELSE LET user == [id |-> NewUserId(users), username |-> body.username,
                             password |-> Hash(body.password, salt)]
                    token == generateToken(user.id, clock) IN
                /\ users' = users \cup {user}
                /\ issued' = issued \cup {token}
                /\ resp' = Response("POST /api/auth/register", 201, user.id, Undefined,
                                    AuthBody(user, token))
        /\ req' = Posted(clock, body)
        /\ registering' = RemoveAt(registering, i)
    /\ UNCHANGED <<server, chats, nextId, clock>>
    /\ UNCHANGED clientVars

\* app.post("/api/auth/login")
Login ==
    /\ server = "auth"
    /\ Cardinality(issued) + Len(registering) < MaxTokens
    /\ \E body \in Credentials :
        /\ IF ~ \E u \in users : u.username = body.username
           THEN /\ resp' = Response("POST /api/auth/login", 401, NoUser, Undefined, << >>)
                /\ UNCHANGED issued
           ELSE IF "password" \notin DOMAIN body
           THEN \* bcrypt.compare(undefined, hash) rejects: the catch answers 500
                /\ resp' = Response("POST /api/auth/login", 500, NoUser, Undefined, << >>)
                /\ UNCHANGED issued
           ELSE LET user == CHOOSE u \in users : u.username = body.username IN
                IF matchPassword(user, body.password)
                THEN LET token == generateToken(user.id, clock) IN
                     /\ issued' = issued \cup {token}
                     /\ resp' = Response("POST /api/auth/login", 200, user.id, Undefined,
                                         AuthBody(user, token))
                ELSE /\ resp' = Response("POST /api/auth/login", 401, NoUser, Undefined, << >>)
                     /\ UNCHANGED issued
        /\ req' = Posted(clock, body)
    /\ UNCHANGED <<server, users, chats, nextId, clock>>
    /\ UNCHANGED <<clientVars, registering>>

\* thirty days go by
TokenLifetimePasses ==
    /\ clock <= MaxTime
    /\ clock' = clock + ExpiresIn
    /\ UNCHANGED <<server, users, issued, chats, nextId, req, resp>>
    /\ UNCHANGED <<clientVars, registering>>

\* what a client, honest or not, may put in the Authorization header
ForgedTokens == {[id |-> u, exp |-> 2 * ExpiresIn + MaxTime + 1, sig |-> "guessed"] : u \in UserIds}

AnyHeaders ==
    {NoHeader,
     [scheme |-> "Basic", token |-> NotAJwt],
     [scheme |-> "Bearer", token |-> NoToken],
     [scheme |-> "Bearer", token |-> NotAJwt]}
    \cup {[scheme |-> "Bearer", token |-> t] : t \in issued \cup ForgedTokens}

AuthBodies == {[conversationId |-> <<"2">>, sender |-> "user", text |-> "What is an Incoterm?"]}
AuthQueries == {[conversationId |-> <<"2">>], EmptyQuery}
AuthParams == {<<"2">>}

InitAuth ==
    /\ server = "auth"
    /\ users = {}
    /\ issued = {}
    /\ chats = << >>
    /\ nextId = 1
    /\ clock = 1
    /\ req = NotRouted(1)
    /\ resp = NoResponse
    /\ registering = << >>
    /\ NoClient

NextAuth ==
    \/ RegisterLookup
    \/ Register
    \/ Login
    \/ TokenLifetimePasses
    \/ nextId <= MaxChats /\ PostChats(AnyHeaders, AuthBodies) /\ UNCHANGED <<clientVars, registering>>
    \/ GetChats(AnyHeaders, AuthQueries) /\ UNCHANGED <<clientVars, registering>>
    \/ GetConversations(AnyHeaders) /\ UNCHANGED <<clientVars, registering>>
    \/ DeleteConversation(AnyHeaders, AuthParams) /\ UNCHANGED <<clientVars, registering>>

SpecAuth == InitAuth /\ [][NextAuth]_vars

-----------------------------------------------------------------------------
(* The client conversation controller (Chatbot.tsx)                        *)
(*                                                                         *)
(* A handler runs with the state of the render it was created in: what it  *)
(* reads as messages or conversationId after an await is still that        *)
(* render's value (field cl of a task), while every setState acts on the   *)
(* current state.  A task is a handler suspended at an await; one step     *)
(* serves its pending request and runs it up to its next await.  dateNow   *)
(* counts the instants of the browser; every step takes one.               *)

WelcomeText == "Hello! I am the Import/Export AI Assistant."
ErrorText == "Error connecting to AI."
AiText == "FOB means Free On Board."
UserTexts == {"What is FOB?"}
EditTexts == {"What is CIF?"}

Digits == <<"0", "1", "2", "3", "4", "5", "6", "7", "8", "9">>

\* String(Date.now()): thirteen decimal digits
DateNowString(t) ==
    <<"1", "7", "6", "2", "2", "4", "1", "0", "0", "0", "0",
      Digits[((t \div 10) % 10) + 1], Digits[(t % 10) + 1]>>

\* getAuthHeaders(): the token of the logged-in user from localStorage
getAuthHeaders == [scheme |-> "Bearer", token |-> generateToken("u1", 1)]

\* the component's state as one value, and the state a handler closes over
ClientState ==
    [messages |-> messages,
     conversationId |-> activeConversationId,
     conversations |-> conversations,
     isLoading |-> isLoading,
     editingMessageId |-> editingMessageId]

Message(id, text, sender) == [id |-> id, text |-> text, sender |-> sender, edited |-> FALSE]

\* a handler suspended at the await of pc; after is what its caller does
\* when the awaited save or load returns; stale is history: the handler has
\* had a write answered since the conversations array was last replaced
Task(op, pc, after, cl) ==
    [op |-> op, pc |-> pc, after |-> after, cl |-> cl,
     text |-> "", cid |-> Undefined, body |-> [sender |-> "none"], conv |-> Undefined,
     editId |-> NullId, aiId |-> NullId, history |-> << >>, stale |-> FALSE]

Finished(st, t) == [st |-> st, t |-> [t EXCEPT !.pc = "done"]]

\* arr.slice(-n)
SliceLast(arr, n) == IF Len(arr) <= n THEN arr ELSE SubSeq(arr, Len(arr) - n + 1, Len(arr))

\* the chat history sent to the model, after the system prompt
HistoryOf(arr) == [i \in 1..Len(arr) |-> [sender |-> arr[i].sender, text |-> arr[i].text]]

\* callGeminiAPI up to its fetch: setIsLoading(true), then the request
callGeminiAPI(st, t, history) ==
    [st |-> [st EXCEPT !.isLoading = TRUE],
     t |-> [t EXCEPT !.pc = "AI", !.history = history]]

\* saveChatToDB up to its fetch: POST /api/chats with timestamp: new Date()
saveChatToDB(st, t, message, convId, time, after) ==
    LET cid == IF ~ Falsy(convId) THEN convId
               ELSE IF ~ Falsy(t.cl.conversationId) THEN t.cl.conversationId
               ELSE DateNowString(time)
    IN [st |-> st,
        t |-> [t EXCEPT !.pc = "POST", !.after = after,
                        !.body = [conversationId |-> cid, sender |-> message.sender,
                                  text |-> message.text, timestamp |-> time]]]

\* loadConversationsFromDB up to its fetch
loadConversationsFromDB(st, t, after) ==
    [st |-> st, t |-> [t EXCEPT !.pc = "GET_CONVS", !.after = after]]

\* the awaited save or load has returned to the handler that called it
Return(st, t) ==
    CASE t.after = "callAI" ->
            \* handleSendMessage: history of the render's messages, then the AI call
            callGeminiAPI(st, t, HistoryOf(SliceLast(t.cl.messages, HistoryLength)))
      [] t.after = "finally" ->
            \* callGeminiAPI: finally { setIsLoading(false) }
            Finished([st EXCEPT !.isLoading = FALSE], t)
      [] t.after = "reload" ->
            \* createNewConversation: await loadConversationsFromDB()
            loadConversationsFromDB(st, t, "done")
      [] t.after = "updated" ->
            \* deleteConversation: setConversationId(null), then the second
            \* fetch of /api/conversations
            [st |-> [st EXCEPT !.conversationId = NullConv],
             t |-> [t EXCEPT !.pc = "GET_UPDATED", !.after = "done"]]
      [] OTHER -> Finished(st, t)

\* loadChatsFromDB up to its fetch
loadChatsFromDB(st, t, convId) ==
    IF Falsy(convId) THEN Return(st, t)
    ELSE [st |-> st, t |-> [t EXCEPT !.pc = "GET_CHATS", !.conv = convId]]

\* data.map((chat, i) => ({ id: Date.parse(chat.timestamp) + i, ... }))
Mapped(data) ==
    [i \in 1..Len(data) |->
        [id |-> data[i].timestamp + (i - 1), text |-> data[i].text,
         sender |-> data[i].sender, edited |-> FALSE]]

\* loadChatsFromDB after its fetch
AfterGetChats(st, t, res) ==
    IF res.status # 200 THEN Return(st, t)
    ELSE Return([st EXCEPT !.messages = Mapped(res.body)], t)

\* loadConversationsFromDB after its fetch
AfterGetConversations(st, t, res) ==
    IF res.status # 200 THEN Return(st, t)
    ELSE LET st1 == [st EXCEPT !.conversations = res.body] IN
         IF Falsy(t.cl.conversationId) /\ Len(res.body) > 0
         THEN loadChatsFromDB([st1 EXCEPT !.conversationId = res.body[1].conversationId],
                              t, res.body[1].conversationId)
         ELSE Return(st1, t)

\* saveChatToDB after its fetch: await loadConversationsFromDB()
AfterPost(st, t) == loadConversationsFromDB(st, t, t.after)

\* deleteConversation(convId) up to its first fetch
deleteConversation(st, convId) ==
    [st |-> st, t |-> [Task("delete", "DELETE_CONV", "updated", st)
                          EXCEPT !.conv = convId, !.cid = convId]]

\* deleteConversation after its DELETE: await loadConversationsFromDB()
AfterDeleteConversation(st, t) == loadConversationsFromDB(st, t, "updated")

\* deleteConversation after its second fetch of /api/conversations: the
\* status is not looked at, and the length of an error body is undefined
\* the else branch without setMessages([]): the messages of the deleted
\* conversation stay
AfterGetUpdatedKeepsMessages(st, t, res) ==
    IF res.status = 200 /\ Len(res.body) > 0
    THEN loadChatsFromDB([st EXCEPT !.conversationId = res.body[1].conversationId],
                         t, res.body[1].conversationId)
    ELSE Finished(st, t)

AfterGetUpdated(st, t, res) ==
    IF res.status = 200 /\ Len(res.body) > 0
    THEN loadChatsFromDB([st EXCEPT !.conversationId = res.body[1].conversationId],
                         t, res.body[1].conversationId)
    ELSE Finished([st EXCEPT !.messages = << >>], t)

\* a callGeminiAPI whose catch asks the model again
AfterAIWithRetry(st, t, ok, time) ==
    IF ok
    THEN LET newAiMessage == Message(time, AiText, "ai") IN
         saveChatToDB([st EXCEPT !.messages = Append(st.messages, newAiMessage)], t,
                      newAiMessage, t.cl.conversationId, time, "finally")
    ELSE [st |-> [st EXCEPT !.messages = Append(st.messages, Message(time, ErrorText, "ai"))],
          t |-> [t EXCEPT !.after = "retry"]]

\* callGeminiAPI after its fetch
AfterAI(st, t, ok, time) ==
    IF ok
    THEN LET newAiMessage == Message(time, AiText, "ai") IN
         saveChatToDB([st EXCEPT !.messages = Append(st.messages, newAiMessage)], t,
                      newAiMessage, t.cl.conversationId, time, "finally")
    ELSE Finished([st EXCEPT !.messages = Append(st.messages, Message(time, ErrorText, "ai")),
                             !.isLoading = FALSE], t)

\* messages.find(msg => msg.sender === "ai" && msg.id > editingMessageId)
FindAiAfter(arr, id) ==
    LET hits == {i \in 1..Len(arr) : arr[i].sender = "ai" /\ arr[i].id > id}
    IN IF hits = {} THEN NullId
       ELSE arr[CHOOSE i \in hits : \A j \in hits : i <= j].id

\* the edit branch from the history filter on: setEditingMessageId(null)
\* and the AI call with the new text
EditTail(st, t) ==
    LET kept == SelectSeq(t.cl.messages,
                          LAMBDA msg : msg.id # t.editId /\ msg.sender # "ai")
    IN callGeminiAPI([st EXCEPT !.editingMessageId = NullId], t,
                     HistoryOf(SliceLast(kept, HistoryLength)))

\* the edit branch after PUT /api/chats: the AI answer to delete is looked
\* up in the render's messages
AfterPut(st, t) ==
    LET aiMsg == FindAiAfter(t.cl.messages, t.editId) IN
    IF aiMsg = NullId THEN EditTail(st, t)
    ELSE [st |-> st, t |-> [t EXCEPT !.pc = "DELETE_MSG", !.aiId = aiMsg]]

\* the edit branch after DELETE /api/chats/:id
AfterDeleteMessage(st, t) ==
    EditTail([st EXCEPT !.messages = SelectSeq(st.messages, LAMBDA msg : msg.id # t.aiId)], t)

\* handleSendMessage(text) up to its first await
handleSendMessage(st, text, time) ==
    LET cid == IF Falsy(st.conversationId) THEN DateNowString(time) ELSE st.conversationId
        st1 == [st EXCEPT !.conversationId = cid]
        t == [Task("send", "POST", "callAI", st) EXCEPT !.text = text, !.cid = cid]
    IN IF st.isLoading THEN Finished(st, t)
       ELSE IF st.editingMessageId # NullId
       THEN [st |-> [st1 EXCEPT !.messages =
                        [i \in 1..Len(st.messages) |->
                            IF st.messages[i].id = st.editingMessageId
                            THEN [st.messages[i] EXCEPT !.text = text, !.edited = TRUE]
                            ELSE st.messages[i]]],
             t |-> [t EXCEPT !.op = "edit", !.pc = "PUT", !.editId = st.editingMessageId]]
       ELSE LET newUserMessage == Message(time, text, "user") IN
            saveChatToDB([st1 EXCEPT !.messages = Append(st.messages, newUserMessage)], t,
                         newUserMessage, cid, time, "callAI")

\* the state after a step of a handler
SetState(st) ==
    /\ messages' = st.messages
    /\ activeConversationId' = st.conversationId
    /\ conversations' = st.conversations
    /\ isLoading' = st.isLoading
    /\ editingMessageId' = st.editingMessageId

\* a start that drops the handler while another one is suspended
StartFenced(r) ==
    /\ SetState(r.st)
    /\ tasks' = IF r.t.pc = "done" \/ tasks # << >> THEN tasks ELSE Append(tasks, r.t)
    /\ dateNow' = dateNow + 1
    /\ UNCHANGED failed

\* a user event has run its handler up to the first await
Start(r) ==
    /\ SetState(r.st)
    /\ tasks' = IF r.t.pc = "done" THEN tasks ELSE Append(tasks, r.t)
    /\ dateNow' = dateNow + 1
    /\ UNCHANGED failed

\* the handler suspended as tasks[i] has run up to its next await, after
\* the answer to its fetch; ok is the answer's res.ok
Resume(i, r, ok) ==
    /\ SetState(r.st)
    /\ tasks' = IF r.t.pc = "done" THEN RemoveAt(tasks, i) ELSE [tasks EXCEPT ![i] = r.t]
    /\ dateNow' = dateNow + 1
    /\ failed' = IF ok THEN failed ELSE failed \cup {tasks[i].pc}

\* res.ok: the status is in the range 200-299
Ok(res) == res.status \in 200..299

\* the step r followed the answer to a write of the handler
Written(r) == [r EXCEPT !.t.stale = TRUE]

\* the step r followed the answer res to the fetch of loadConversationsFromDB
Refreshed(r, res) == IF Ok(res) THEN [r EXCEPT !.t.stale = FALSE] ELSE r

\* the server of the deployment answers the client's request
ServePostChats(hdr, body) ==
    \/ PostChatsLoose({body})
    \/ PostChats({hdr}, {body})
    \/ RouterPostChats({hdr}, {body})

ServeGetChats(hdr, q) ==
    \/ GetChatsLoose({q})
    \/ GetChats({hdr}, {q})
    \/ RouterGetChats({hdr}, {q})

ServeGetConversations(hdr) ==
    \/ GetConversationsLoose
    \/ GetConversations({hdr})
    \/ RouterGetConversations({hdr})

ServeDeleteConversation(hdr, convId) ==
    \/ DeleteConversationLoose({convId})
    \/ DeleteConversation({hdr}, {convId})
    \/ RouterDeleteConversation({hdr}, {convId})

\* onClick of "New chat": createNewConversation()
CreateNewConversation ==
    /\ dateNow < MaxNow /\ Len(tasks) < MaxTasks
    /\ LET newId == DateNowString(dateNow)
           welcomeMsg == Message(dateNow, WelcomeText, "ai")
           st == [ClientState EXCEPT !.conversationId = newId, !.messages = <<welcomeMsg>>]
       IN Start(saveChatToDB(st, Task("new", "POST", "reload", ClientState),
                             welcomeMsg, newId, dateNow, "reload"))
    /\ UNCHANGED <<server, users, issued, chats, nextId, clock, req, resp>>

\* onSubmit of the input form: handleSendMessage(userInput)
SubmitForm ==
    /\ dateNow < MaxNow /\ Len(tasks) < MaxTasks
    /\ \E text \in UserTexts : Start(handleSendMessage(ClientState, text, dateNow))
    /\ UNCHANGED <<server, users, issued, chats, nextId, clock, req, resp>>

\* onClick of the pencil of a user message
StartEdit ==
    /\ dateNow < MaxNow
    /\ \E i \in 1..Len(messages) :
        /\ messages[i].sender = "user"
        /\ messages[i].id # editingMessageId
        /\ editingMessageId' = messages[i].id
    /\ dateNow' = dateNow + 1
    /\ UNCHANGED <<messages, activeConversationId, conversations, isLoading, tasks, failed>>
    /\ UNCHANGED <<server, users, issued, chats, nextId, clock, req, resp>>

\* onClick of the check mark of the message being edited:
\* setEditingMessageId(null); handleSendMessage(editingText)
ConfirmEdit ==
    /\ dateNow < MaxNow /\ Len(tasks) < MaxTasks
    /\ \E i \in 1..Len(messages) : messages[i].id = editingMessageId
    /\ \E text \in EditTexts :
        LET r == handleSendMessage(ClientState, text, dateNow)
        IN Start([r EXCEPT !.st.editingMessageId = NullId])
    /\ UNCHANGED <<server, users, issued, chats, nextId, clock, req, resp>>

\* onClick of a conversation of the sidebar: handleSelectConversation(convId)
SelectConversation ==
    /\ dateNow < MaxNow /\ Len(tasks) < MaxTasks
    /\ \E k \in 1..Len(conversations) :
        LET convId == conversations[k].conversationId
            st == [ClientState EXCEPT !.conversationId = convId]
        IN Start(loadChatsFromDB(st, Task("select", "GET_CHATS", "done", ClientState), convId))
    /\ UNCHANGED <<server, users, issued, chats, nextId, clock, req, resp>>

\* onClick of the bin of a conversation of the sidebar:
\* if (conv.conversationId) await deleteConversation(conv.conversationId)
DeleteClicked ==
    /\ dateNow < MaxNow /\ Len(tasks) < MaxTasks
    /\ \E k \in 1..Len(conversations) :
        /\ ~ Falsy(conversations[k].conversationId)
        /\ Start(deleteConversation(ClientState, conversations[k].conversationId))
    /\ UNCHANGED <<server, users, issued, chats, nextId, clock, req, resp>>

\* DELETE /api/conversations/:conversationId of deleteConversation is answered
ConversationDeleted ==
    /\ dateNow < MaxNow
    /\ \E i \in 1..Len(tasks) :
        /\ tasks[i].pc = "DELETE_CONV"
        /\ ServeDeleteConversation(getAuthHeaders, tasks[i].conv)
        /\ Resume(i, Written(AfterDeleteConversation(ClientState, tasks[i])), Ok(resp'))

\* the second GET /api/conversations of deleteConversation is answered
UpdatedLoaded ==
    /\ dateNow < MaxNow
    /\ \E i \in 1..Len(tasks) :
        /\ tasks[i].pc = "GET_UPDATED"
        /\ ServeGetConversations(getAuthHeaders)
        /\ Resume(i, AfterGetUpdated(ClientState, tasks[i], resp'), Ok(resp'))

\* POST /api/chats of saveChatToDB is answered
ChatSaved ==
    /\ dateNow < MaxNow
    /\ \E i \in 1..Len(tasks) :
        /\ tasks[i].pc = "POST"
        /\ ServePostChats(getAuthHeaders, tasks[i].body)
        /\ Resume(i, Written(AfterPost(ClientState, tasks[i])), Ok(resp'))

\* GET /api/conversations of loadConversationsFromDB is answered
ConversationsLoaded ==
    /\ dateNow < MaxNow
    /\ \E i \in 1..Len(tasks) :
        /\ tasks[i].pc = "GET_CONVS"
        /\ ServeGetConversations(getAuthHeaders)
        /\ Resume(i, Refreshed(AfterGetConversations(ClientState, tasks[i], resp'), resp'),
                  Ok(resp'))

\* GET /api/chats of loadChatsFromDB is answered
ChatsLoaded ==
    /\ dateNow < MaxNow
    /\ \E i \in 1..Len(tasks) :
        /\ tasks[i].pc = "GET_CHATS"
        /\ ServeGetChats(getAuthHeaders, [conversationId |-> tasks[i].conv])
        /\ Resume(i, AfterGetChats(ClientState, tasks[i], resp'), Ok(resp'))

\* PUT /api/chats of the edit branch is answered
MessageUpdated ==
    /\ dateNow < MaxNow
    /\ \E i \in 1..Len(tasks) :
        /\ tasks[i].pc = "PUT"
        /\ NoRoute({"PUT /api/chats"})
        /\ Resume(i, Written(AfterPut(ClientState, tasks[i])), Ok(resp'))

\* DELETE /api/chats/:id of the edit branch is answered
MessageDeleted ==
    /\ dateNow < MaxNow
    /\ \E i \in 1..Len(tasks) :
        /\ tasks[i].pc = "DELETE_MSG"
        /\ NoRoute({"DELETE /api/chats/:id"})
        /\ Resume(i, Written(AfterDeleteMessage(ClientState, tasks[i])), Ok(resp'))

\* the model answers, or the request to it fails
AiAnswered ==
    /\ dateNow < MaxNow
    /\ \E i \in 1..Len(tasks), ok \in BOOLEAN :
        /\ tasks[i].pc = "AI"
        /\ Resume(i, AfterAI(ClientState, tasks[i], ok, dateNow), ok)
    /\ UNCHANGED <<server, users, issued, chats, nextId, clock, req, resp>>

\* the component is mounted with a user logged in: the effect has called
\* loadConversationsFromDB()
InitClient ==
    /\ server = "auth"
    /\ users = RegisteredUsers
    /\ issued = {generateToken(u.id, 1) : u \in RegisteredUsers}
    /\ chats = << >>
    /\ nextId = 1
    /\ clock = 1
    /\ req = NotRouted(1)
    /\ resp = NoResponse
    /\ registering = << >>
    /\ messages = << >>
    /\ activeConversationId = NullConv
    /\ conversations = << >>
    /\ isLoading = FALSE
    /\ editingMessageId = NullId
    /\ dateNow = 1
    /\ tasks = <<Task("mount", "GET_CONVS", "done", ClientState)>>
    /\ failed = {}

NextClient ==
    \/ CreateNewConversation /\ UNCHANGED registering
    \/ SubmitForm /\ UNCHANGED registering
    \/ StartEdit /\ UNCHANGED registering
    \/ ConfirmEdit /\ UNCHANGED registering
    \/ SelectConversation /\ UNCHANGED registering
    \/ DeleteClicked /\ UNCHANGED registering
    \/ ConversationDeleted /\ UNCHANGED registering
    \/ UpdatedLoaded /\ UNCHANGED registering
    \/ ChatSaved /\ UNCHANGED registering
    \/ ConversationsLoaded /\ UNCHANGED registering
    \/ ChatsLoaded /\ UNCHANGED registering
    \/ MessageUpdated /\ UNCHANGED registering
    \/ MessageDeleted /\ UNCHANGED registering
    \/ AiAnswered /\ UNCHANGED registering

SpecClient == InitClient /\ [][NextClient]_vars

-----------------------------------------------------------------------------
(* Properties of the message store and its API *)

IsListMessages == resp.route = "GET /api/chats"
IsListConversations == resp.route = "GET /api/conversations" /\ resp.status = 200
IsDeleteConversation ==
    resp.route = "DELETE /api/conversations/:conversationId" /\ resp.status = 200

\* the rows of the requester of the last request
Mine == FindByUser(chats, resp.user)

\* the body lists exactly the rows S, each once, in non-decreasing timestamp order
ListsExactly(body, S) ==
    /\ Range(body) = S
    /\ Len(body) = Cardinality(S)
    /\ \A i, j \in 1..Len(body) : i < j => body[i].timestamp <= body[j].timestamp

\* C1 as stated: for every conversationId string c, listMessages(c) returns
\* exactly the stored messages of conversation c (each row once, repeated
\* creates included), in non-decreasing timestamp order.
C1_EveryConversationId ==
    (IsListMessages /\ resp.conv \in ConvIds) =>
        ListsExactly(resp.body, Find(chats, resp.user, resp.conv))

\* C1 amended: for every non-empty conversationId c, listMessages(c) returns
\* exactly the stored messages of conversation c (of the requesting owner),
\* each row once, in non-decreasing timestamp order.
C1_ListMessages ==
    (IsListMessages /\ resp.conv \in ConvIds /\ resp.conv # EmptyString) =>
        /\ resp.status = 200
        /\ ListsExactly(resp.body, Find(chats, resp.user, resp.conv))

\* two rows listed in the opposite of their insertion order
C1_Witness ==
    /\ IsListMessages /\ resp.status = 200
    /\ Len(resp.body) = 2
    /\ resp.body[1].id > resp.body[2].id

C3_DescendingOrder ==
    IsListConversations =>
        \A i, j \in 1..Len(resp.body) :
            i < j => resp.body[i].updatedAt >= resp.body[j].updatedAt

\* the rows of owner u in conversation c are gone
Gone(rows, u, c) == \A i \in 1..Len(rows) : ~ (rows[i].user = u /\ rows[i].conversationId = c)

\* C4: after a successful deleteConversation(c) no stored message of the
\* requester has conversationId c; from then on listMessages(c) is empty and
\* listConversations has no entry for c, until a createMessage for c succeeds.
C4_DeleteConversation ==
    [][\A u \in UserIds \cup {NoUser}, c \in RouteParams :
        /\ (IsDeleteConversation' /\ resp'.user = u /\ resp'.conv = c) => Gone(chats', u, c)
        /\ (/\ Gone(chats, u, c)
            /\ ~ (/\ resp'.route = "POST /api/chats"
                  /\ resp'.status \in {200, 201}
                  /\ resp'.user = u /\ resp'.conv = c
                  /\ nextId' = nextId + 1))
           => /\ Gone(chats', u, c)
              /\ (IsListMessages' /\ resp'.status = 200 /\ resp'.user = u /\ resp'.conv = c)
                    => resp'.body = << >>
              /\ (IsListConversations' /\ resp'.user = u)
                    => \A i \in 1..Len(resp'.body) : resp'.body[i].conversationId # c
      ]_vars

\* a delete that removed two rows at once
C4_Witness ==
    /\ IsDeleteConversation
    /\ nextId = 3
    /\ chats = << >>

\* C5: in the authenticated servers a listing answered to user A is derived
\* from A's rows only: every listed message is owned by A, and every listed
\* conversation id, text and timestamp is that of a row of A.
C5_OwnDataOnly ==
    (server # "loose" /\ resp.status = 200) =>
        /\ IsListMessages => \A i \in 1..Len(resp.body) : resp.body[i].user = resp.user
        /\ IsListConversations =>
            \A i \in 1..Len(resp.body) :
                \E r \in Mine :
                    /\ r.conversationId = resp.body[i].conversationId
                    /\ r.text = resp.body[i].lastMessage
                    /\ r.timestamp = resp.body[i].updatedAt

\* both users have a row in the same conversation id and one of them lists it
C5_Witness ==
    /\ server # "loose"
    /\ Len(chats) = 2
    /\ chats[1].user # chats[2].user
    /\ chats[1].conversationId = chats[2].conversationId
    /\ chats[1].text # chats[2].text
    /\ IsListMessages /\ resp.status = 200 /\ Len(resp.body) = 1

\* C10: GET /api/chats without a conversationId is answered 400 with no
\* messages, in every server variant.
C10_BadRequest ==
    (IsListMessages /\ resp.conv = Undefined /\ req.next = 1) =>
        /\ resp.status = 400
        /\ resp.body = << >>

-----------------------------------------------------------------------------
(* Properties of the authentication gate *)

\* the header carries a token the server handed out that has not expired
ValidCredentials(hdr, now) ==
    /\ hdr # NoHeader
    /\ hdr.scheme = "Bearer"
    /\ hdr.token \in issued
    /\ now < hdr.token.exp

\* C6: a request to a protected route whose Authorization header is missing,
\* does not start with Bearer, or carries a token that fails verification or
\* has expired is answered 401; the handler does not run and the store is
\* unchanged.
C6_Unauthorized ==
    [][(/\ req'.mw = "protect"
        /\ (req' # req \/ resp' # resp)
        /\ ~ ValidCredentials(req'.hdr, req'.at))
       => /\ resp'.status = 401
          /\ req'.next = 0
          /\ UNCHANGED <<users, chats, nextId>>
      ]_vars

\* a delete presented with an expired token of the server, rows being stored
C6_Witness ==
    /\ req.mw = "protect"
    /\ resp.route = "DELETE /api/conversations/:conversationId"
    /\ resp.status = 401
    /\ req.hdr # NoHeader /\ req.hdr.token \in issued
    /\ req.at >= req.hdr.token.exp
    /\ chats # << >>

\* C7: for every request to a protected route the middleware either sends one
\* 401 response or calls the handler once with req.user set to the user the
\* presented token was issued for by register or login; never both, never
\* neither.
C7_ExactlyOne ==
    req.mw = "protect" =>
        /\ req.sent401 + req.next = 1
        /\ req.sent401 = 1 => resp.status = 401
        /\ req.next = 1 =>
            /\ req.hdr.token \in issued
            /\ req.user = req.hdr.token.id
            /\ \E u \in users : u.id = req.user

\* the handler ran for the second of two registered users
C7_Witness ==
    /\ req.mw = "protect"
    /\ req.next = 1
    /\ Cardinality(users) = 2
    /\ req.user = "u2"
    /\ resp.status = 200

-----------------------------------------------------------------------------
(* Properties of the client's edit flow *)

\* the rows of conversation c that the client shows as a message with this
\* id: a loaded message has id = timestamp + index, a local one id = timestamp
RowsOf(c, sender, id) ==
    {k \in 1..Len(chats) :
        /\ chats[k].conversationId = c
        /\ chats[k].sender = sender
        /\ chats[k].timestamp <= id
        /\ id - chats[k].timestamp < Len(chats)}

\* C8: once the edit flow for user message M with new text t has made its
\* requests to the store, the store's row for M has text t and the stored AI
\* message that followed M is gone from the store.
C8_EditStored ==
    \A i \in 1..Len(tasks) :
        (tasks[i].op = "edit" /\ tasks[i].pc = "AI") =>
            /\ \E k \in RowsOf(tasks[i].cid, "user", tasks[i].editId) :
                    chats[k].text = tasks[i].text
            /\ tasks[i].aiId # NullId => RowsOf(tasks[i].cid, "ai", tasks[i].aiId) = {}

\* the ids of the array strictly increase
Increasing(arr) == \A i, j \in 1..Len(arr) : i < j => arr[i].id < arr[j].id

IndexOf(arr, id) == CHOOSE k \in 1..Len(arr) : arr[k].id = id

\* C9: in the edit flow for user message M the local array changes only so:
\* M gets the new text and is marked edited; the one message removed is the
\* AI message immediately following M; every other message keeps its content
\* and position; the AI call is re-issued with a history without M's old
\* text and without AI answers.  Stated for arrays with increasing ids.
C9_EditFrame ==
    [][\A i \in 1..Len(tasks) :
        (/\ i <= Len(tasks') /\ tasks[i].op = "edit" /\ Increasing(tasks[i].cl.messages)
         /\ \E k \in 1..Len(messages) : messages[k].id = tasks[i].editId
         /\ Len(messages) = Len(tasks[i].cl.messages)
         /\ \A k \in 1..Len(messages) :
                messages[k] = IF messages[k].id = tasks[i].editId
                              THEN [tasks[i].cl.messages[k] EXCEPT !.text = tasks[i].text,
                                                                   !.edited = TRUE]
                              ELSE tasks[i].cl.messages[k]) =>
            LET m == IndexOf(messages, tasks[i].editId)
                old == tasks[i].cl.messages[m].text
            IN /\ (tasks[i].pc = "DELETE_MSG" /\ tasks'[i].pc = "AI") =>
                    /\ m < Len(messages)
                    /\ messages[m + 1].sender = "ai"
                    /\ messages' = RemoveAt(messages, m + 1)
               /\ (tasks[i].pc = "PUT" /\ tasks'[i].pc \in {"DELETE_MSG", "AI"}) =>
                    messages' = messages
               /\ tasks'[i].pc = "AI" =>
                    \A h \in 1..Len(tasks'[i].history) :
                        /\ tasks'[i].history[h].sender # "ai"
                        /\ tasks'[i].history[h].text = old =>
                                \E k \in 1..Len(messages) :
                                    k # m /\ tasks[i].cl.messages[k].text = old
      ]_vars

-----------------------------------------------------------------------------
(* Frame and idempotence of deleteConversation *)

\* the rows that a deleteConversation(c) of owner u must not touch
Others(rows, u, c) == SelectSeq(rows, LAMBDA r : r.conversationId # c \/ r.user # u)

\* C11: deleteConversation(c) called by owner u leaves every stored message
\* whose conversationId differs from c or whose owner differs from u as it
\* was, in its place among the others, messages of another owner with the
\* same conversationId included; it changes no User row.
C11_DeleteFrame ==
    [][(IsDeleteConversation' /\ resp'.user \in UserIds) =>
            /\ Others(chats', resp'.user, resp'.conv) = Others(chats, resp'.user, resp'.conv)
            /\ \A i \in 1..Len(chats) :
                    (chats[i].conversationId # resp'.conv \/ chats[i].user # resp'.user)
                        => chats[i] \in Range(chats')
            /\ users' = users
      ]_vars

\* a delete took the requester's row of a conversation and left the row that
\* another owner has under the same conversationId
C11_Witness ==
    /\ IsDeleteConversation /\ resp.user \in UserIds
    /\ nextId = 3
    /\ Len(chats) = 1
    /\ chats[1].conversationId = resp.conv
    /\ chats[1].user # resp.user

\* C12: deleteConversation is idempotent: for a conversationId without stored
\* messages it answers with the success response and leaves the store as it
\* is, and a second call in a row for the same conversationId leaves the
\* store that the first call left.
C12_DeleteIdempotent ==
    [][/\ (/\ resp'.route = "DELETE /api/conversations/:conversationId"
           /\ req'.next = 1 /\ resp'.user # NullUser
           /\ Gone(chats, resp'.user, resp'.conv))
            => /\ resp'.status = 200
               /\ chats' = chats
       /\ (/\ IsDeleteConversation /\ IsDeleteConversation'
           /\ resp'.user = resp.user /\ resp'.conv = resp.conv)
            => chats' = chats
      ]_vars

\* a delete for a conversationId without rows, answered with success, in a
\* store that holds two rows of other conversations
C12_Witness ==
    /\ IsDeleteConversation
    /\ nextId = 3
    /\ Len(chats) = 2
    /\ Gone(chats, resp.user, resp.conv)
    /\ \E i \in 1..2 : chats[i].user = resp.user

-----------------------------------------------------------------------------
(* Timestamps and validation *)

\* C13: the timestamp of every stored message is the server's clock value at
\* the insert, whatever timestamp the request body carries, so the
\* timestamps of successive inserts are non-decreasing.
C13_ServerTimestamp ==
    /\ (resp.route = "POST /api/chats" /\ resp.status \in {200, 201}) =>
            resp.body[1].timestamp = req.at
    /\ \A i, j \in 1..Len(chats) : i < j => chats[i].timestamp <= chats[j].timestamp

\* C14: a createMessage request under the strict schema that omits a required
\* field (here the conversationId) is answered with 400 and inserts no row.
C14_MissingField ==
    (/\ server = "router"
     /\ resp.route = "POST /api/chats"
     /\ req.next = 1 /\ resp.user \in UserIds
     /\ resp.conv = Undefined)
        => /\ resp.status = 400
           /\ resp.body = << >>

-----------------------------------------------------------------------------
(* Properties of registration and login *)

IsLogin == resp.route = "POST /api/auth/login"
IsRegister == resp.route = "POST /api/auth/register"

\* the stored users that the credentials of a request body match
Matching(userdb, body) ==
    {u \in userdb : /\ u.username = body.username
                    /\ "password" \in DOMAIN body
                    /\ u.password = Hash(body.password, u.password.salt)}

\* the answer to a login carries a token
HasToken(r) == r.body # << >> /\ "token" \in DOMAIN r.body[1]

UniqueUsernames(userdb) == \A u, v \in userdb : u.username = v.username => u = v

Taken(userdb, body) == \E u \in userdb : u.username = body.username

\* C16 as stated: after any interleaving of register requests no two stored
\* users have the same username, and a register request for a username that
\* is taken creates no user and is answered 400.  Stated for requests that
\* carry both fields.
C16_TakenIs400 ==
    [][/\ UniqueUsernames(users')
       /\ (/\ IsRegister' /\ (req' # req \/ resp' # resp)
           /\ "password" \in DOMAIN req'.body /\ Taken(users, req'.body))
            => (resp'.status = 400 /\ users' = users)
      ]_vars

\* C16 amended: after any interleaving of register requests no two stored
\* users have the same username; a register request whose username is taken
\* creates no user; it is answered 400 when the username was taken at its
\* lookup, and 500 when the username was taken between its lookup and its
\* insert; an answer 400 is given only for a taken username.
C16_UniqueUsernames ==
    [][/\ UniqueUsernames(users')
       /\ (IsRegister' /\ (req' # req \/ resp' # resp) /\ Taken(users, req'.body))
            => /\ users' = users
               /\ resp'.status \in {400, 500}
               /\ resp'.status = 400 <=> registering' = registering
       /\ (IsRegister' /\ (req' # req \/ resp' # resp) /\ resp'.status = 400)
            => Taken(users, req'.body)
      ]_vars

\* the later of two concurrent requests for one username, with a password,
\* was refused at its insert
C16_Witness ==
    /\ IsRegister /\ resp.status = 500
    /\ "password" \in DOMAIN req.body
    /\ Taken(users, req.body)
    /\ Cardinality(users) = 1

-----------------------------------------------------------------------------
(* C17: stored passwords and what the answers of register and login carry *)

\* the answer of register or login carries neither a password nor a hash
NoPasswordIn(r) ==
    \A k \in 1..Len(r.body) :
        /\ DOMAIN r.body[k] \subseteq {"id", "username", "token"}
        /\ \A f \in DOMAIN r.body[k] \ {"token"} : r.body[k][f] \notin Passwords
        /\ "token" \in DOMAIN r.body[k] =>
              /\ DOMAIN r.body[k].token = {"id", "exp", "sig"}
              /\ r.body[k].token.id \notin Passwords
              /\ r.body[k].token.sig \notin Passwords

\* C17: in every reachable state the password field of every stored user is
\* the salted hash of the password given at registration, never the plaintext
\* (a user is stored by register alone, with the bcrypt hash of the password of
\* the request body, and is never changed afterwards), and no register or
\* login response contains the password or its hash.
C17_HashedPassword ==
    [][/\ \A u \in users : u \in users'
       /\ \A u \in users' \ users :
             /\ IsRegister' /\ resp'.status = 201
             /\ "password" \in DOMAIN req'.body
             /\ u.username = req'.body.username
             /\ u.password.alg = "bcrypt"
             /\ u.password.of = req'.body.password
             /\ \E salt \in Salts : u.password = Hash(req'.body.password, salt)
       /\ (IsRegister' \/ IsLogin') => NoPasswordIn(resp')
      ]_vars

\* a user is stored and logs in with the password: the answer has the token
C17_Witness ==
    /\ IsLogin /\ resp.status = 200 /\ HasToken(resp)
    /\ \E u \in users : u.username = req.body.username /\ u.password.of = req.body.password

-----------------------------------------------------------------------------
(* C18: the client's arrays against the store when every request succeeds *)

\* the user the client is logged in as
Me == getAuthHeaders.token.id

\* no handler is suspended: every user action has run to completion
Idle == tasks = << >>

\* the messages array has the (sender, text) sequence of a listMessages
\* result for conversation c
ShowsMessagesOf(c) ==
    \E list \in SortAsc(Find(chats, Me, c)) : HistoryOf(messages) = HistoryOf(list)

\* C18 with success as a response that is ok: when the client's user actions
\* run one at a time, each to completion, and every request was answered ok
\* (2xx from the server, an answer from the model), then after each action
\* the conversations array equals the server's listConversations result and
\* the messages array has the (sender, text) sequence of the server's
\* listMessages for the selected conversationId.
InSync ==
    /\ conversations \in Aggregate(FindByUser(chats, Me))
    /\ ~ Falsy(activeConversationId) => ShowsMessagesOf(activeConversationId)

C18_InSyncWhenAllOk == (Idle /\ failed = {}) => InSync

\* the fetches whose res.ok the client reads
Checked == {"AI", "GET_CONVS", "GET_CHATS"}

-----------------------------------------------------------------------------
(* C19: the conversations array is reloaded after every write of an action *)

\* the handler tasks[i] ends with this step
Ends(i) == Len(tasks') < Len(tasks) /\ \A j \in 1..Len(tasks') : tasks'[j] = tasks[IF j < i THEN j ELSE j + 1]

\* this step is the answer to the fetch of loadConversationsFromDB of tasks[i],
\* and its result replaces the conversations array
Reloads(i) ==
    /\ tasks[i].pc = "GET_CONVS"
    /\ resp'.route = "GET /api/conversations" /\ resp'.status = 200
    /\ conversations' = resp'.body

\* C19: every create (POST /api/chats), update (PUT /api/chats), delete-message
\* (DELETE /api/chats/:id) and delete-conversation call issued by the client is
\* followed, before the user action that issued it ends, by a GET
\* /api/conversations whose result replaces the conversations array, whether
\* or not the subsequent AI call succeeds.
C19_ReloadAfterWrite ==
    [][\A i \in 1..Len(tasks) :
          (Ends(i) /\ tasks[i].stale) => Reloads(i)
      ]_vars

-----------------------------------------------------------------------------
(* The first load: the store is filled by the user's earlier sessions, then *)
(* the page is opened and the mount effect loads the conversations          *)

\* the page has not been opened yet
Unmounted == tasks = << >> /\ dateNow = 1

\* bodies of the POST /api/chats of earlier sessions
EarlierBodies == {b \in Bodies : ~ Falsy(b.conversationId)}

\* useEffect(() => { if (userInfo) loadConversationsFromDB() }, [])
Mount ==
    /\ Unmounted
    /\ Start(loadConversationsFromDB(ClientState, Task("mount", "GET_CONVS", "done", ClientState),
                                     "done"))
    /\ UNCHANGED <<server, users, issued, chats, nextId, clock, req, resp>>

InitMount ==
    /\ server \in {"auth", "router"}
    /\ users = RegisteredUsers
    /\ issued = {generateToken(u.id, 1) : u \in RegisteredUsers}
    /\ chats = << >>
    /\ nextId = 1
    /\ clock = 1
    /\ req = NotRouted(1)
    /\ resp = NoResponse
    /\ registering = << >>
    /\ NoClient

NextMount ==
    \/ Unmounted /\ Tick
    \/ Unmounted /\ nextId <= MaxChats /\ PostChats({getAuthHeaders}, EarlierBodies)
                 /\ UNCHANGED <<clientVars, registering>>
    \/ Unmounted /\ nextId <= MaxChats /\ RouterPostChats({getAuthHeaders}, EarlierBodies)
                 /\ UNCHANGED <<clientVars, registering>>
    \/ Mount /\ UNCHANGED registering
    \/ ConversationsLoaded /\ UNCHANGED registering
    \/ ChatsLoaded /\ UNCHANGED registering

SpecMount == InitMount /\ [][NextMount]_vars

\* the first load has completed
FirstLoadDone == dateNow > 1 /\ Idle

\* the rows of the user that are the latest of the whole store of the user
Latest == {r \in FindByUser(chats, Me) : \A q \in FindByUser(chats, Me) : q.timestamp <= r.timestamp}

\* C20: after the first load completes with no conversation selected, the
\* selected conversationId is the conversation with the greatest latest-message
\* timestamp on the server and messages holds that conversation's messages; if
\* the server has no conversations, conversationId stays null and messages
\* stays empty.
C20_FirstLoad ==
    FirstLoadDone =>
        IF FindByUser(chats, Me) = {}
        THEN activeConversationId = NullConv /\ messages = << >>
        ELSE /\ \E r \in Latest : activeConversationId = r.conversationId
             /\ ShowsMessagesOf(activeConversationId)

-----------------------------------------------------------------------------
(* C21: the failure of the AI call *)

\* this step is the answer to the AI call of tasks[i], and the handler does
\* not go on to save a reply: the call has failed
AiFails(i) ==
    /\ tasks[i].pc = "AI"
    /\ \/ Ends(i)
       \/ Len(tasks') = Len(tasks) /\ tasks'[i] # tasks[i] /\ tasks'[i].pc # "POST"

\* C21: when the external AI call returns a non-success status or throws, the
\* client appends exactly one placeholder AI message to the local messages,
\* persists no AI message to the store, issues no second AI request for that
\* prompt, and sets isLoading back to false.
C21_AiFailure ==
    [][\A i \in 1..Len(tasks) :
          AiFails(i) =>
             /\ Len(messages') = Len(messages) + 1
             /\ SubSeq(messages', 1, Len(messages)) = messages
             /\ messages'[Len(messages')].text = ErrorText
             /\ messages'[Len(messages')].sender = "ai"
             /\ chats' = chats /\ nextId' = nextId
             /\ tasks' = RemoveAt(tasks, i)
             /\ ~ isLoading'
      ]_vars

\* the AI call of a send has failed: the placeholder is the last message
C21_Witness ==
    /\ Idle /\ "AI" \in failed /\ ~ isLoading
    /\ messages # << >>
    /\ messages[Len(messages)].text = ErrorText
    /\ \E k \in 1..Len(messages) : messages[k].sender = "user"

-----------------------------------------------------------------------------
(* The authenticated server when an operation of the store fails: the      *)
(* awaited promise rejects, and field fault of req names the operation     *)

ProtectedRoutes ==
    {"POST /api/chats", "GET /api/chats", "GET /api/conversations",
     "DELETE /api/conversations/:conversationId"}

\* the store operation each handler awaits
StoreOperation(route) ==
    CASE route = "POST /api/chats" -> "chat.save"
      [] route = "GET /api/chats" -> "Chat.find"
      [] route = "GET /api/conversations" -> "Chat.aggregate"
      [] route = "DELETE /api/conversations/:conversationId" -> "Chat.deleteMany"
      [] OTHER -> "User.findOne"

\* protect when User.findById rejects: the rejection is thrown inside the
\* try of the middleware, whose catch answers 401; next() is not called
UserLookupFails ==
    /\ server = "auth"
    /\ \E route \in ProtectedRoutes, hdr \in ClientHeaders :
        LET p == protect(hdr, clock, users) IN
        /\ p.next = 1
        /\ req' = [p EXCEPT !.sent401 = 1, !.next = 0, !.user = NullUser]
                    @@ [fault |-> "User.findById"]
        /\ resp' = Response(route, 401, NoUser, Undefined, << >>)
    /\ UNCHANGED <<server, users, issued, chats, nextId, clock>>
    /\ UNCHANGED <<clientVars, registering>>

\* a chat handler whose store operation rejects: its catch answers 500
ChatStoreFails ==
    /\ server = "auth"
    /\ \E route \in ProtectedRoutes, hdr \in ClientHeaders :
        LET p == protect(hdr, clock, users) IN
        /\ p.next = 1 /\ p.user # NullUser
        /\ req' = p @@ [fault |-> StoreOperation(route)]
        /\ resp' = Response(route, 500, p.user, Undefined, << >>)
    /\ UNCHANGED <<server, users, issued, chats, nextId, clock>>
    /\ UNCHANGED <<clientVars, registering>>

\* register or login whose User.findOne rejects: the catch answers 500
UserStoreFails ==
    /\ server = "auth"
    /\ \E route \in {"POST /api/auth/register", "POST /api/auth/login"}, body \in Credentials :
        /\ req' = Posted(clock, body) @@ [fault |-> StoreOperation(route)]
        /\ resp' = Response(route, 500, NoUser, Undefined, << >>)
    /\ UNCHANGED <<server, users, issued, chats, nextId, clock>>
    /\ UNCHANGED <<clientVars, registering>>

InitFault ==
    /\ server = "auth"
    /\ users = RegisteredUsers
    /\ issued = {generateToken(u.id, 1) : u \in RegisteredUsers}
    /\ chats = << >>
    /\ nextId = 1
    /\ clock = 1
    /\ req = NotRouted(1)
    /\ resp = NoResponse
    /\ registering = << >>
    /\ NoClient

NextFault ==
    \/ nextId <= MaxChats /\ PostChats(ClientHeaders, AuthBodies) /\ UNCHANGED <<clientVars, registering>>
    \/ GetChats(ClientHeaders, AuthQueries) /\ UNCHANGED <<clientVars, registering>>
    \/ GetConversations(ClientHeaders) /\ UNCHANGED <<clientVars, registering>>
    \/ DeleteConversation(ClientHeaders, AuthParams) /\ UNCHANGED <<clientVars, registering>>
    \/ UserLookupFails
    \/ ChatStoreFails
    \/ UserStoreFails

SpecFault == InitFault /\ [][NextFault]_vars

\* the last request was served while an operation of the store failed
StoreFailed == "fault" \in DOMAIN req

\* C22: for every request on every route, a failure of any store operation
\* performed while serving it (including the user lookup done by the protect
\* middleware) produces an HTTP 500 response with a JSON error body, leaves the
\* server able to serve later requests, and leaves the store as it was before
\* the failed operation.
C22_StoreFailure ==
    [][StoreFailed' => (resp'.status = 500 /\ chats' = chats /\ users' = users)]_vars

-----------------------------------------------------------------------------
(* Rapid submissions: a second message is submitted while the save of the  *)
(* first one is still unresolved                                           *)

\* the save of the user message of a send is pending
SavePending == \E i \in 1..Len(tasks) : tasks[i].op = "send" /\ tasks[i].pc = "POST"
                                          /\ tasks[i].body.sender = "user"

\* onSubmit of the input form while the first save is pending: the input is
\* enabled, isLoading being false until callGeminiAPI runs
SubmitAgain ==
    /\ dateNow < MaxNow /\ Len(tasks) = 1
    /\ SavePending
    /\ \E text \in UserTexts : Start(handleSendMessage(ClientState, text, dateNow))
    /\ UNCHANGED <<server, users, issued, chats, nextId, clock, req, resp>>

\* the first message of a session on an empty store, then the second one
NextRapid ==
    \/ chats = << >> /\ SubmitForm /\ UNCHANGED registering
    \/ chats = << >> /\ SubmitAgain /\ UNCHANGED registering
    \/ ChatSaved /\ UNCHANGED registering
    \/ ConversationsLoaded /\ UNCHANGED registering
    \/ ChatsLoaded /\ UNCHANGED registering
    \/ AiAnswered /\ UNCHANGED registering

SpecRapid == InitClient /\ [][NextRapid]_vars

\* this step is a submit of the form that passed the guard of
\* handleSendMessage: a user message with id Date.now() is appended
Submitted ==
    /\ Len(messages') = Len(messages) + 1
    /\ SubSeq(messages', 1, Len(messages)) = messages
    /\ messages'[Len(messages')].sender = "user"
    /\ messages'[Len(messages')].id = dateNow
    /\ req' = req /\ resp' = resp

\* C23: a second handleSendMessage issued while the first one's save request
\* is still unresolved is not rejected: both user messages are posted and two
\* AI calls are started (a send handler ends only after its AI call), and the
\* rows of the two exchanges can reach the store interleaved (C23_Witness).
C23_NotFenced ==
    [][/\ (SavePending /\ Submitted) =>
             /\ Len(tasks') = Len(tasks) + 1
             /\ tasks'[Len(tasks')].pc = "POST"
             /\ tasks'[Len(tasks')].body.sender = "user"
             /\ SubSeq(tasks', 1, Len(tasks)) = tasks
       /\ \A i \in 1..Len(tasks) :
             (tasks[i].op = "send" /\ Ends(i)) =>
                 (tasks[i].pc = "AI" \/ tasks[i].after = "finally")
      ]_vars

\* the store holds the second user message before the first AI reply, and
\* both AI calls were made and answered
C23_Witness ==
    /\ Idle
    /\ Len(chats) = 4
    /\ chats[1].sender = "user" /\ chats[2].sender = "user"
    /\ chats[3].sender = "ai" /\ chats[4].sender = "ai"
    /\ chats[1].timestamp < chats[2].timestamp

-----------------------------------------------------------------------------
(* C24: stored rows are constant *)

-----------------------------------------------------------------------------
(* C25: the conversation an AI reply is stored under *)

\* C25: every AI reply the client persists is stored under the same
\* conversationId as the user message that prompted it (field cid of the
\* handler: the id handleSendMessage saved the user message under), including
\* when no conversation was selected at the time of the send.
C25_ReplyInSameConversation ==
    [][\A i \in 1..Len(tasks) :
          (/\ tasks[i].op \in {"send", "edit"}
           /\ tasks[i].pc = "POST" /\ tasks[i].body.sender = "ai"
           /\ Len(tasks') <= Len(tasks) /\ (Len(tasks') = Len(tasks) => tasks'[i] # tasks[i])
           /\ Len(chats') = Len(chats) + 1)
             => chats'[Len(chats')].conversationId = tasks[i].cid
      ]_vars

-----------------------------------------------------------------------------
(* C26: isLoading and the AI calls in flight *)

\* callGeminiAPI of the handler tasks[i] is running: from setIsLoading(true)
\* to its finally, the save of the reply included
InAiCall(i) == tasks[i].pc = "AI" \/ tasks[i].after = "finally"

\* C26: isLoading is true whenever an AI call is in flight and false whenever
\* none is (and handleSendMessage has no effect while it is true; after every
\* AI call isLoading returns to false once no AI call remains in flight).
C26_LoadingIffInFlight ==
    isLoading <=> \E i \in 1..Len(tasks) : InAiCall(i)

-----------------------------------------------------------------------------
(* C27: the conversation shown when the answer of the model arrives *)

\* callGeminiAPI of a send is awaiting the answer of the model
AiPending == \E i \in 1..Len(tasks) : tasks[i].op = "send" /\ tasks[i].pc = "AI"

\* onClick of "New chat" during the AI call: the button is not disabled by
\* isLoading
NewChatDuringAI ==
    /\ dateNow < MaxNow /\ Len(tasks) = 1
    /\ AiPending
    /\ LET newId == DateNowString(dateNow)
           welcomeMsg == Message(dateNow, WelcomeText, "ai")
           st == [ClientState EXCEPT !.conversationId = newId, !.messages = <<welcomeMsg>>]
       IN Start(saveChatToDB(st, Task("new", "POST", "reload", ClientState),
                             welcomeMsg, newId, dateNow, "reload"))
    /\ UNCHANGED <<server, users, issued, chats, nextId, clock, req, resp>>

\* onClick of a conversation of the sidebar during the AI call
SelectDuringAI ==
    /\ dateNow < MaxNow /\ Len(tasks) = 1
    /\ AiPending
    /\ \E k \in 1..Len(conversations) :
        LET convId == conversations[k].conversationId
            st == [ClientState EXCEPT !.conversationId = convId]
        IN Start(loadChatsFromDB(st, Task("select", "GET_CHATS", "done", ClientState), convId))
    /\ UNCHANGED <<server, users, issued, chats, nextId, clock, req, resp>>

\* the first message of a session on an empty store, and the sidebar used
\* while its AI call is in flight
NextSwitch ==
    \/ chats = << >> /\ SubmitForm /\ UNCHANGED registering
    \/ Len(chats) <= 1 /\ NewChatDuringAI /\ UNCHANGED registering
    \/ SelectDuringAI /\ UNCHANGED registering
    \/ ChatSaved /\ UNCHANGED registering
    \/ ConversationsLoaded /\ UNCHANGED registering
    \/ ChatsLoaded /\ UNCHANGED registering
    \/ AiAnswered /\ UNCHANGED registering

SpecSwitch == InitClient /\ [][NextSwitch]_vars

\* this step is the answer to the AI call of tasks[i]: the reply or the
\* placeholder is appended to messages
AiAnswers(i) ==
    /\ tasks[i].pc = "AI"
    /\ \/ Ends(i)
       \/ Len(tasks') = Len(tasks) /\ tasks'[i] # tasks[i]

\* C27: every message of the messages array belongs to the selected
\* conversation: when the user has selected or created another conversation
\* during an AI call, the reply or the error placeholder is not appended to
\* the messages of the conversation now shown, that is, whenever the answer
\* is appended the selected conversation is the one of the prompt.
C27_ReplyToShownConversation ==
    [][\A i \in 1..Len(tasks) :
          AiAnswers(i) =>
             (messages' # messages => activeConversationId = tasks[i].cid)
      ]_vars

-----------------------------------------------------------------------------
(* C28: the owner of a stored message *)

\* bodies of POST /api/chats that carry a user field; the text repeats the
\* user named, so that a stored row tells which body created it
OwnerBodies ==
    {[conversationId |-> <<"2">>, sender |-> "user", text |-> u, user |-> u] : u \in UserIds}
    \cup AuthBodies

\* the servers with protect, started with the registered users logged in
InitOwner ==
    /\ server \in {"auth", "router"}
    /\ users = RegisteredUsers
    /\ issued = {generateToken(u.id, 1) : u \in RegisteredUsers}
    /\ chats = << >>
    /\ nextId = 1
    /\ clock = 1
    /\ req = NotRouted(1)
    /\ resp = NoResponse
    /\ registering = << >>
    /\ NoClient

NextOwner ==
    \/ nextId <= MaxChats /\ PostChats(ClientHeaders, OwnerBodies) /\ UNCHANGED <<clientVars, registering>>
    \/ nextId <= MaxChats /\ RouterPostChats(ClientHeaders, OwnerBodies)
                          /\ UNCHANGED <<clientVars, registering>>
    \/ GetChats(ClientHeaders, AuthQueries) /\ UNCHANGED <<clientVars, registering>>
    \/ RouterGetChats(ClientHeaders, AuthQueries) /\ UNCHANGED <<clientVars, registering>>
    \/ DeleteConversation(ClientHeaders, AuthParams) /\ UNCHANGED <<clientVars, registering>>
    \/ RouterDeleteConversation(ClientHeaders, AuthParams) /\ UNCHANGED <<clientVars, registering>>
    \/ Tick

SpecOwner == InitOwner /\ [][NextOwner]_vars

\* C28: the owner of every stored message is the user authenticated for the
\* request that created it (the user the token of the request was issued
\* to), even when the request body carries a user field naming another user.
C28_OwnerIsAuthenticatedUser ==
    [][Len(chats') = Len(chats) + 1 =>
          /\ req'.mw = "protect" /\ req'.next = 1
          /\ chats'[Len(chats')].user = req'.hdr.token.id
          /\ chats'[Len(chats')].user \in {u.id : u \in users}
      ]_vars

\* a row created by a request whose body named another user than the one
\* authenticated
C28_Witness ==
    \E i \in 1..Len(chats) :
        /\ chats[i].text \in UserIds
        /\ chats[i].text # chats[i].user
        /\ chats[i].user \in UserIds

-----------------------------------------------------------------------------
(* C29: the ids of the messages array *)

\* C29: the ids of the messages of the messages array are pairwise distinct
\* and strictly increase along the array after any sequence of loads (id =
\* parsed timestamp + index) and local appends (id = current time).
C29_IdsIncrease ==
    \A i \in 1..Len(messages) - 1 : messages[i].id < messages[i + 1].id


\* rows of the store while the conversation is open in a second tab too
SharedRows == 3

\* saveChatToDB of another tab of the same user, which has the conversation
\* selected here open: a row stamped with that tab's new Date()
OtherTabPosts ==
    /\ Len(chats) < SharedRows
    /\ ~ Falsy(activeConversationId)
    /\ PostChats({getAuthHeaders},
                 {[conversationId |-> activeConversationId, sender |-> "user",
                   text |-> "What is an Incoterm?", timestamp |-> dateNow]})
    /\ UNCHANGED clientVars

\* the first message of a session on an empty store, its AI call, and the
\* conversation reloaded from the sidebar while the other tab writes to it
NextShared ==
    \/ chats = << >> /\ SubmitForm /\ UNCHANGED registering
    \/ OtherTabPosts /\ UNCHANGED registering
    \/ SelectDuringAI /\ UNCHANGED registering
    \/ ChatSaved /\ UNCHANGED registering
    \/ ConversationsLoaded /\ UNCHANGED registering
    \/ ChatsLoaded /\ UNCHANGED registering
    \/ AiAnswered /\ UNCHANGED registering

SpecShared == InitClient /\ [][NextShared]_vars

-----------------------------------------------------------------------------
(* C30: the selection after deleteConversation *)

\* the selection is the first entry of a listConversations result and
\* messages shows it, or nothing is left and nothing is selected
SelectsFirst ==
    \E list \in Aggregate(FindByUser(chats, Me)) :
        IF Len(list) > 0
        THEN /\ activeConversationId = list[1].conversationId
             /\ ShowsMessagesOf(activeConversationId)
        ELSE /\ activeConversationId = NullConv
             /\ messages = << >>

\* the user starts an action only when the one before has run to completion
NextSerial ==
    \/ Idle /\ CreateNewConversation /\ UNCHANGED registering
    \/ Idle /\ SubmitForm /\ UNCHANGED registering
    \/ StartEdit /\ UNCHANGED registering
    \/ Idle /\ ConfirmEdit /\ UNCHANGED registering
    \/ Idle /\ SelectConversation /\ UNCHANGED registering
    \/ Idle /\ DeleteClicked /\ UNCHANGED registering
    \/ ConversationDeleted /\ UNCHANGED registering
    \/ UpdatedLoaded /\ UNCHANGED registering
    \/ ChatSaved /\ UNCHANGED registering
    \/ ConversationsLoaded /\ UNCHANGED registering
    \/ ChatsLoaded /\ UNCHANGED registering
    \/ MessageUpdated /\ UNCHANGED registering
    \/ MessageDeleted /\ UNCHANGED registering
    \/ AiAnswered /\ UNCHANGED registering

SpecSerial == InitClient /\ [][NextSerial]_vars

\* C30: after deleteConversation(c) has completed with every request
\* succeeding and no other action in flight, the selected conversationId is
\* the first entry of the server's conversation list with messages holding
\* that conversation's messages, or, when no conversation remains,
\* conversationId is null and messages is empty; the selection is never c.
C30_SelectionAfterDelete ==
    [][(/\ Len(tasks) = 1 /\ tasks[1].op = "delete"
        /\ tasks' = << >> /\ failed' = {})
          => /\ SelectsFirst'
             /\ activeConversationId' # tasks[1].cid
      ]_vars

\* a conversation has been deleted and another one is selected and shown
C30_Witness ==
    /\ Idle /\ failed = {}
    /\ nextId - 1 > Len(chats)
    /\ resp.route = "GET /api/chats" /\ resp.status = 200
    /\ ~ Falsy(activeConversationId)
    /\ messages # << >>
    /\ ShowsMessagesOf(activeConversationId)

=============================================================================
